---- MODULE Spec2Model ----
(***************************************************************************)
(* Model of src/ffprobe.rs: locating the ffprobe binary (sidecar next to   *)
(* the running executable, or the bare name resolved through PATH),        *)
(* the installation check, the version query, and the FfprobeCommand       *)
(* argument builder.                                                       *)
(*                                                                         *)
(* A path is a sequence of components; a component is a sequence of        *)
(* one-character strings, so that file_stem / set_extension work on the    *)
(* characters as std::path does.  Captured standard output is a sequence   *)
(* of bytes (0..255).                                                      *)
(***************************************************************************)
EXTENDS Integers, Sequences, FiniteSets, TLC

VARIABLES
  windows,  \* cfg!(windows) of the build
  exe,      \* what std::env::current_exe() answers: Ok(path) or Err(e)
  fs,       \* the paths at which a filesystem entry exists
  onPath,   \* whether the PATH search finds an `ffprobe`
  bin,      \* what the ffprobe program does when launched with -version
  inner,    \* FfprobeCommand.inner: the wrapped Command's argument sequence
  pending,  \* the call under way, between two of its reads
  changes,  \* how many times a file was created or removed so far
  log       \* the calls made so far, each with what it observed and returned

vars == <<windows, exe, fs, onPath, bin, inner, pending, changes, log>>

----------------------------------------------------------------------------
(* Bounds *)

MaxCalls == 2

MaxOutLen == 2

MaxList == 2

MaxChanges == 2

----------------------------------------------------------------------------
(* Option / Result *)

None == [some |-> FALSE]
Some(v) == [some |-> TRUE, val |-> v]

Ok(v) == [ok |-> TRUE, val |-> v]
Err(e) == [ok |-> FALSE, err |-> e]

\* The error values a caller can tell apart.
IoError(kind) == [type |-> "io::Error", detail |-> kind]
ContextError == [type |-> "anyhow::Context", detail |-> "Can't get parent of current_exe"]
FromUtf8Error == [type |-> "FromUtf8Error", detail |-> "invalid utf-8"]

----------------------------------------------------------------------------
(* std::path, as far as ffprobe.rs uses it *)

Slash == <<"/">>
CurDir == <<".">>
ParentDir == <<".", ".">>
OPT == <<"o", "p", "t">>
APP == <<"a", "p", "p">>
FFPROBE == <<"f", "f", "p", "r", "o", "b", "e">>
EXE == <<"e", "x", "e">>
FFPROBE_EXE == <<"f", "f", "p", "r", "o", "b", "e", ".", "e", "x", "e">>

IsRoot(c) == c = Slash
IsNormal(c) == ~IsRoot(c) /\ c # CurDir /\ c # ParentDir

\* Mutant of parent: the root is given an (empty) parent.
parent_of_root(p) ==
  IF p = <<>> THEN None ELSE Some(SubSeq(p, 1, Len(p) - 1))

\* Path::parent: the path without its last component, None when the path is
\* empty or ends in a root.
parent(p) ==
  IF p = <<>> \/ IsRoot(p[Len(p)]) THEN None
  ELSE Some(SubSeq(p, 1, Len(p) - 1))

\* Path::join / PathBuf::push: an absolute argument replaces the path.
join(p, q) ==
  IF q # <<>> /\ IsRoot(q[1]) THEN q ELSE p \o q

\* Path::file_name: the last component when it is a normal one.
file_name(p) ==
  IF p # <<>> /\ IsNormal(p[Len(p)]) THEN Some(p[Len(p)]) ELSE None

LastDot(name) ==
  LET dots == {i \in 1..Len(name) : name[i] = "."}
  IN  IF dots = {} THEN 0 ELSE CHOOSE i \in dots : \A j \in dots : j <= i

\* std::path::rsplit_file_at_dot
rsplit_file_at_dot(name) ==
  LET d == LastDot(name)
  IN  IF name = ParentDir THEN [before |-> Some(name), after |-> None]
      ELSE IF d = 0 THEN [before |-> None, after |-> Some(name)]
      ELSE IF d = 1 THEN [before |-> Some(name), after |-> None]
      ELSE [before |-> Some(SubSeq(name, 1, d - 1)),
            after  |-> Some(SubSeq(name, d + 1, Len(name)))]

\* Path::file_stem
file_stem(p) ==
  LET f == file_name(p)
  IN  IF ~f.some THEN None
      ELSE LET s == rsplit_file_at_dot(f.val)
           IN  IF s.before.some THEN s.before ELSE s.after

\* Path::extension
extension(p) ==
  LET f == file_name(p)
  IN  IF ~f.some THEN None
      ELSE LET s == rsplit_file_at_dot(f.val)
           IN  IF s.before.some THEN s.after ELSE None

\* PathBuf::set_extension: the file name becomes stem, ".", ext (no "." for
\* an empty ext); a path without a file name is left alone.
set_extension(p, ext) ==
  LET stem == file_stem(p)
  IN  IF ~stem.some THEN p
      ELSE [p EXCEPT ![Len(p)] =
              IF ext = <<>> THEN stem.val ELSE stem.val \o <<".">> \o ext]

----------------------------------------------------------------------------
(* The locator *)

\* Path::new("ffprobe"): the bare name, left to the PATH search at launch.
default == <<FFPROBE>>

\* Mutant of ffprobe_sidecar_path: the extension is set on every platform.
ffprobe_sidecar_path_always_exe(current_exe, win) ==
  IF ~current_exe.ok THEN Err(current_exe.err)
  ELSE LET par == parent(current_exe.val)
       IN  IF ~par.some THEN Err(ContextError)
           ELSE Ok(set_extension(join(par.val, <<FFPROBE>>), EXE))

ffprobe_sidecar_path(current_exe, win) ==
  IF ~current_exe.ok THEN Err(current_exe.err)
  ELSE LET par == parent(current_exe.val)
       IN  IF ~par.some THEN Err(ContextError)
           ELSE LET path == join(par.val, <<FFPROBE>>)
                IN  Ok(IF win THEN set_extension(path, EXE) ELSE path)

\* Path::exists
exists(p, files) == p \in files

\* Mutant of ffprobe_path: the sidecar path is returned without the
\* existence check.
ffprobe_path_unchecked(current_exe, win, files) ==
  LET sidecar == ffprobe_sidecar_path(current_exe, win)
  IN  IF sidecar.ok THEN sidecar.val ELSE default

\* Mutant of ffprobe_path: the first answer is kept and handed out again.
ffprobe_path_cached(current_exe, win, files) ==
  LET sidecar == ffprobe_sidecar_path(current_exe, win)
      earlier == {i \in DOMAIN log : log[i].op = "ffprobe_path"}
  IN  IF earlier # {} THEN log[CHOOSE i \in earlier : TRUE].out
      ELSE IF sidecar.ok /\ exists(sidecar.val, files) THEN sidecar.val
      ELSE default

ffprobe_path(current_exe, win, files) ==
  LET sidecar == ffprobe_sidecar_path(current_exe, win)
  IN  IF sidecar.ok
        THEN IF exists(sidecar.val, files) THEN sidecar.val ELSE default
        ELSE default

----------------------------------------------------------------------------
(* std::process, as far as ffprobe.rs uses it *)

\* ExitStatus: the exit code, None when a signal ended the process.
Exited(c) == [code |-> Some(c)]
Signaled == [code |-> None]

\* ExitStatus::success
success(s) == s.code = Some(0)

\* A program: not executable (permission denied at launch), one whose exit
\* and output the parent fails to collect (wait or pipe read error), or one
\* that writes `stdout` and ends with `status` when run with the single
\* argument -version.
NotExecutable == [exec |-> FALSE]
Uncollected == [exec |-> TRUE, collected |-> FALSE]
Program(out, st) ==
  [exec |-> TRUE, collected |-> TRUE, stdout |-> out, status |-> st]

\* Command::new(program): a bare file name is searched for, any other path
\* is used as it is.
IsBareName(program) == Len(program) = 1 /\ IsNormal(program[1])

\* What a launch settles on: the file at `path`, or the entry for `path`
\* that the PATH search finds.
File(p) == [where |-> "file", path |-> p]
Searched(name) == [where |-> "PATH", path |-> name]

\* Whether the program string ends in ".exe", compared ignoring ASCII case.
\* The last four characters of the string are those of the last component:
\* a shorter component leaves a separator among them.
has_exe_suffix(program) ==
  LET name == program[Len(program)]
      n == Len(name)
  IN  /\ n >= 4
      /\ name[n - 3] = "."
      /\ name[n - 2] \in {"e", "E"}
      /\ name[n - 1] \in {"x", "X"}
      /\ name[n] \in {"e", "E"}

\* Whether a bare name holds a "." at all.
has_extension(program) == LastDot(program[Len(program)]) # 0

\* The file name with ".exe" added at its end.
append_suffix(program) ==
  [program EXCEPT ![Len(program)] = @ \o <<".">> \o EXE]

\* The directory of the running executable as the Windows program search
\* takes it: current_exe() with its last component popped, when there is one.
application_dir(current_exe) ==
  LET par == parent(current_exe.val)
  IN  IF par.some THEN par.val ELSE current_exe.val

\* The file name a bare name is searched under, and the place in the
\* directory of the running executable where it is looked for first.
search_name(program) ==
  IF has_extension(program) THEN program ELSE set_extension(program, EXE)
application_path(current_exe, name) == join(application_dir(current_exe), name)

\* The first read of a launch on a Windows build: std settles on the file
\* to run, looking at the filesystem `seen`.  A path that is no bare name is
\* kept when it ends in .exe; without that suffix it becomes the path with
\* .exe appended when a file is there, and stays as it is otherwise.  A bare
\* name, with .exe set when it has no extension, is looked for in the
\* directory of the running executable, then in PATH; found nowhere, the
\* launch fails here.
resolve_exe(program, current_exe, seen, inPath) ==
  IF program = <<>> \/ IsRoot(program[Len(program)])
    THEN Err(IoError("InvalidInput"))
  ELSE IF ~IsBareName(program)
    THEN IF has_exe_suffix(program) THEN Ok(File(program))
         ELSE IF exists(append_suffix(program), seen)
           THEN Ok(File(append_suffix(program)))
         ELSE Ok(File(program))
  ELSE IF current_exe.ok /\ exists(application_path(current_exe, search_name(program)), seen)
    THEN Ok(File(application_path(current_exe, search_name(program))))
  ELSE IF inPath THEN Ok(Searched(search_name(program)))
  ELSE Err(IoError("NotFound"))

\* What the launch settles on before it creates the process.  A Unix build
\* settles on nothing: exec looks a bare name up in PATH and runs any other
\* path as it is.
program_target(program, win, current_exe, seen, inPath) ==
  IF win THEN resolve_exe(program, current_exe, seen, inPath)
  ELSE IF IsBareName(program) THEN Ok(Searched(program))
  ELSE Ok(File(program))

\* The second read: the process is created from the file settled on, in the
\* filesystem `files`; a failed resolution is the launch's error.
create_process(target, files, inPath, b) ==
  IF ~target.ok THEN target
  ELSE IF target.val.where = "PATH" /\ ~inPath THEN Err(IoError("NotFound"))
  ELSE IF target.val.where = "file" /\ ~exists(target.val.path, files)
    THEN Err(IoError("NotFound"))
  ELSE IF ~b.exec THEN Err(IoError("PermissionDenied"))
  ELSE Ok(b)

\* Launching `program` with -version: the running program, or the launch
\* error.  `seen` is the filesystem when the program is resolved, `files`
\* the filesystem when the process is created.
spawn(program, win, current_exe, seen, files, inPath, b) ==
  create_process(program_target(program, win, current_exe, seen, inPath),
                 files, inPath, b)

\* What the parent collects from the child: exit status and captured
\* standard output, or the exit status alone.
wait_with_output(child) ==
  IF ~child.ok THEN child
  ELSE IF ~child.val.collected THEN Err(IoError("Other"))
  ELSE Ok([status |-> child.val.status, stdout |-> child.val.stdout])
wait(child) ==
  IF ~child.ok THEN child
  ELSE IF ~child.val.collected THEN Err(IoError("Other"))
  ELSE Ok(child.val.status)

\* Command::output: exit status and captured standard output.
output(program, win, current_exe, seen, files, inPath, b) ==
  wait_with_output(spawn(program, win, current_exe, seen, files, inPath, b))

\* Command::status with stdout and stderr sent to Stdio::null.
status(program, win, current_exe, seen, files, inPath, b) ==
  wait(spawn(program, win, current_exe, seen, files, inPath, b))

----------------------------------------------------------------------------
(* String::from_utf8 *)

IsCont(x) == 128 <= x /\ x <= 191

\* Length of the well-formed UTF-8 sequence that starts at bytes[i], 0 when
\* there is none.
Utf8SeqLen(bytes, i) ==
  LET n == Len(bytes)
      b0 == bytes[i]
      b1 == IF i + 1 <= n THEN bytes[i + 1] ELSE 0
      b2 == IF i + 2 <= n THEN bytes[i + 2] ELSE 0
      b3 == IF i + 3 <= n THEN bytes[i + 3] ELSE 0
  IN  IF b0 < 128 THEN 1
      ELSE IF 194 <= b0 /\ b0 <= 223
        THEN IF IsCont(b1) THEN 2 ELSE 0
      ELSE IF b0 = 224
        THEN IF 160 <= b1 /\ b1 <= 191 /\ IsCont(b2) THEN 3 ELSE 0
      ELSE IF (225 <= b0 /\ b0 <= 236) \/ b0 = 238 \/ b0 = 239
        THEN IF IsCont(b1) /\ IsCont(b2) THEN 3 ELSE 0
      ELSE IF b0 = 237
        THEN IF 128 <= b1 /\ b1 <= 159 /\ IsCont(b2) THEN 3 ELSE 0
      ELSE IF b0 = 240
        THEN IF 144 <= b1 /\ b1 <= 191 /\ IsCont(b2) /\ IsCont(b3) THEN 4 ELSE 0
      ELSE IF 241 <= b0 /\ b0 <= 243
        THEN IF IsCont(b1) /\ IsCont(b2) /\ IsCont(b3) THEN 4 ELSE 0
      ELSE IF b0 = 244
        THEN IF 128 <= b1 /\ b1 <= 143 /\ IsCont(b2) /\ IsCont(b3) THEN 4 ELSE 0
      ELSE 0

RECURSIVE Utf8ValidFrom(_, _)
Utf8ValidFrom(bytes, i) ==
  IF i > Len(bytes) THEN TRUE
  ELSE LET k == Utf8SeqLen(bytes, i)
       IN  k # 0 /\ Utf8ValidFrom(bytes, i + k)

\* The String owns the same bytes; invalid input is an error.
from_utf8(bytes) ==
  IF Utf8ValidFrom(bytes, 1) THEN Ok(bytes) ELSE Err(FromUtf8Error)

----------------------------------------------------------------------------
(* The invoker *)

\* `?` on the launch's result, then String::from_utf8(output.stdout)?
decode(out) ==
  IF ~out.ok THEN Err(out.err) ELSE from_utf8(out.val.stdout)

\* Mutant of ffprobe_version_with_path: trailing line feeds are trimmed.
RECURSIVE trim_end(_)
trim_end(text) ==
  IF text # <<>> /\ text[Len(text)] = 10
    THEN trim_end(SubSeq(text, 1, Len(text) - 1))
    ELSE text

trimmed(text) == IF text.ok THEN Ok(trim_end(text.val)) ELSE text

ffprobe_version_with_path_trimmed(path, win, current_exe, seen, files, inPath, b) ==
  trimmed(decode(output(path, win, current_exe, seen, files, inPath, b)))

\* Mutant of ffprobe_version_with_path: a failed launch is tried again with
\* the bare name.
or_else(first, second) == IF first.ok THEN first ELSE second

ffprobe_version_with_path_retry(path, win, current_exe, seen, files, inPath, b) ==
  decode(or_else(output(path, win, current_exe, seen, files, inPath, b),
                 output(default, win, current_exe, seen, files, inPath, b)))

\* Mutant of ffprobe_version_with_path: a non-success exit is an error.
decode_checked(out) ==
  IF ~out.ok THEN Err(out.err)
  ELSE IF ~success(out.val.status) THEN Err(IoError("Other"))
  ELSE from_utf8(out.val.stdout)

ffprobe_version_with_path_checked(path, win, current_exe, seen, files, inPath, b) ==
  decode_checked(output(path, win, current_exe, seen, files, inPath, b))

ffprobe_version_with_path(path, win, current_exe, seen, files, inPath, b) ==
  decode(output(path, win, current_exe, seen, files, inPath, b))

\* ffprobe_version and ffprobe_is_installed first evaluate ffprobe_path(),
\* which looks at the filesystem, and launch afterwards, which looks at it
\* again: `path` is what ffprobe_path() returned, `seen` the filesystem when
\* the launch resolves the program, `files` the filesystem when it creates
\* the process, `inPath` whether PATH holds an ffprobe.
ffprobe_version(path, win, current_exe, seen, files, inPath, b) ==
  ffprobe_version_with_path(path, win, current_exe, seen, files, inPath, b)

\* Mutant of ffprobe_is_installed: a launched process counts as installed
\* whatever its exit status.
ffprobe_is_installed_any_exit(path, win, current_exe, seen, files, inPath, b) ==
  status(path, win, current_exe, seen, files, inPath, b).ok

\* .map(|s| s.success()).unwrap_or_else(|_| false)
success_or_false(s) == IF s.ok THEN success(s.val) ELSE FALSE

ffprobe_is_installed(path, win, current_exe, seen, files, inPath, b) ==
  success_or_false(status(path, win, current_exe, seen, files, inPath, b))

----------------------------------------------------------------------------
(* FfprobeCommand: the builder methods, on the argument sequence *)

\* Mutant of arg: an argument already present is not added again.
arg_dedup(argv, a) ==
  IF \E k \in DOMAIN argv : argv[k] = a THEN argv ELSE Append(argv, a)

arg(argv, a) == Append(argv, a)

RECURSIVE args(_, _)
args(argv, list) ==
  IF list = <<>> THEN argv
  ELSE args(arg(argv, Head(list)), Tail(list))

hide_banner(argv) == arg(argv, "-hide_banner")

\* Mutant of print_format: the value comes before the flag.
print_format_swapped(argv, format) == arg(arg(argv, format), "-print_format")

print_format(argv, format) == arg(arg(argv, "-print_format"), format)

----------------------------------------------------------------------------
(* The inputs explored *)

SeqsUpTo(S, n) == UNION {[1..k -> S] : k \in 0..n}

\* "\n" and "A": every text over them up to the length bound.
Bytes == {10, 65}
Outputs == SeqsUpTo(Bytes, MaxOutLen)
Statuses == {Exited(0), Exited(1), Signaled}
\* The code never relates the exit status to the output: every output with
\* exit 0, and with each status the empty output, a line, U+00E9 in its two
\* bytes, and its first byte alone and after an "A", which is not UTF-8.
SomeOutputs == {<<>>, <<65, 10>>, <<195, 169>>, <<195>>, <<65, 195>>}
Programs ==
  {NotExecutable, Uncollected}
    \cup {Program(o, Exited(0)) : o \in Outputs}
    \cup {Program(o, s) : o \in SomeOutputs, s \in Statuses}
GoodProgram == Program(<<65, 10>>, Exited(0))

\* current_exe(): an error, the root itself, or /opt/app.
ExeResults == {Err(IoError("Other")), Ok(<<Slash>>), Ok(<<Slash, OPT, APP>>)}
\* /opt/ffprobe and /opt/ffprobe.exe
FsPaths == {<<Slash, OPT, FFPROBE>>, <<Slash, OPT, FFPROBE_EXE>>}
\* The paths handed to ffprobe_version_with_path: the bare name and
\* /opt/ffprobe, which a Windows build also tries as /opt/ffprobe.exe.
GivenPaths == {default, <<Slash, OPT, FFPROBE>>}

Tokens == {"x", "a", "b"}
Formats == {"json", ""}
ArgLists == SeqsUpTo(Tokens, MaxList)

----------------------------------------------------------------------------
(* The calls of one caller.  Each call appends to the log what it was      *)
(* given, what it returned, and the filesystem and PATH state at each of   *)
(* its reads: when it started or checked the sidecar's existence (`env`),  *)
(* when its launch resolved the program (`mid`), and when the process was  *)
(* created or the call returned (`at`).  The filesystem may change         *)
(* between the reads.  ffprobe_version and ffprobe_is_installed take three *)
(* steps: the existence check inside ffprobe_path(), the resolution of the *)
(* program, the creation of the process.  ffprobe_version_with_path takes  *)
(* the last two.                                                           *)

Observed == [fs |-> fs, onPath |-> onPath]

Nothing == [fs |-> {}, onPath |-> FALSE]

Idle == [op |-> "idle", stage |-> "idle", path |-> <<>>, env |-> Nothing, mid |-> Nothing]

Call(op, given, env, mid, out) ==
  [op |-> op, arg |-> given, env |-> env, mid |-> mid, at |-> Observed, out |-> out]

Returns(op, given, out) ==
  /\ pending = Idle
  /\ Len(log) < MaxCalls
  /\ log' = Append(log, Call(op, given, Observed, Observed, out))

\* The first step of ffprobe_version / ffprobe_is_installed: ffprobe_path().
Resolves(op) ==
  /\ pending = Idle
  /\ Len(log) < MaxCalls
  /\ pending' = [op |-> op, stage |-> "path", path |-> ffprobe_path(exe, windows, fs),
                 env |-> Observed, mid |-> Nothing]

\* What the launch reads when it begins: a Windows build resolves the
\* program in the filesystem as it is now, a Unix build reads nothing yet.
Resolving == IF windows THEN Observed ELSE Nothing

\* The launch begins.
Locates(op) ==
  /\ pending.op = op
  /\ pending.stage = "path"
  /\ pending' = [pending EXCEPT !.stage = "program", !.mid = Resolving]

\* The launch ends: the process is created in the filesystem as it is now
\* and runs to its exit.
Launched(op, given, out) ==
  /\ pending.op = op
  /\ pending.stage = "program"
  /\ log' = Append(log, Call(op, given, pending.env, pending.mid, out))
  /\ pending' = Idle

SidecarPathCall ==
  /\ Returns("ffprobe_sidecar_path", <<>>, ffprobe_sidecar_path(exe, windows))
  /\ UNCHANGED <<windows, exe, fs, onPath, bin, inner, pending, changes>>

PathCall ==
  /\ Returns("ffprobe_path", <<>>, ffprobe_path(exe, windows, fs))
  /\ UNCHANGED <<windows, exe, fs, onPath, bin, inner, pending, changes>>

VersionResolve ==
  /\ Resolves("ffprobe_version")
  /\ UNCHANGED <<windows, exe, fs, onPath, bin, inner, changes, log>>

VersionLocate ==
  /\ Locates("ffprobe_version")
  /\ UNCHANGED <<windows, exe, fs, onPath, bin, inner, changes, log>>

VersionLaunch ==
  /\ Launched("ffprobe_version", <<>>,
              ffprobe_version(pending.path, windows, exe, pending.mid.fs, fs, onPath, bin))
  /\ UNCHANGED <<windows, exe, fs, onPath, bin, inner, changes>>

\* ffprobe_version_with_path(path) up to the launch's first read: building
\* the command reads nothing.
VersionWithPathCall(path) ==
  /\ pending = Idle
  /\ Len(log) < MaxCalls
  /\ pending' = [op |-> "ffprobe_version_with_path", stage |-> "program", path |-> path,
                 env |-> Observed, mid |-> Resolving]
  /\ UNCHANGED <<windows, exe, fs, onPath, bin, inner, changes, log>>

VersionWithPathLaunch ==
  /\ Launched("ffprobe_version_with_path", pending.path,
              ffprobe_version_with_path(pending.path, windows, exe, pending.mid.fs, fs, onPath, bin))
  /\ UNCHANGED <<windows, exe, fs, onPath, bin, inner, changes>>

IsInstalledResolve ==
  /\ Resolves("ffprobe_is_installed")
  /\ UNCHANGED <<windows, exe, fs, onPath, bin, inner, changes, log>>

IsInstalledLocate ==
  /\ Locates("ffprobe_is_installed")
  /\ UNCHANGED <<windows, exe, fs, onPath, bin, inner, changes, log>>

IsInstalledLaunch ==
  /\ Launched("ffprobe_is_installed", <<>>,
              ffprobe_is_installed(pending.path, windows, exe, pending.mid.fs, fs, onPath, bin))
  /\ UNCHANGED <<windows, exe, fs, onPath, bin, inner, changes>>

ArgCall(a) ==
  /\ inner' = arg(inner, a)
  /\ Returns("arg", <<a>>, inner')
  /\ UNCHANGED <<windows, exe, fs, onPath, bin, pending, changes>>

ArgsCall(list) ==
  /\ inner' = args(inner, list)
  /\ Returns("args", list, inner')
  /\ UNCHANGED <<windows, exe, fs, onPath, bin, pending, changes>>

HideBannerCall ==
  /\ inner' = hide_banner(inner)
  /\ Returns("hide_banner", <<>>, inner')
  /\ UNCHANGED <<windows, exe, fs, onPath, bin, pending, changes>>

PrintFormatCall(format) ==
  /\ inner' = print_format(inner, format)
  /\ Returns("print_format", <<format>>, inner')
  /\ UNCHANGED <<windows, exe, fs, onPath, bin, pending, changes>>

\* The environment: a file appears at, or disappears from, a sidecar
\* location, between any two steps of the caller, MaxChanges times at most.
CreateFile(p) ==
  /\ changes < MaxChanges
  /\ p \notin fs
  /\ fs' = fs \cup {p}
  /\ changes' = changes + 1
  /\ UNCHANGED <<windows, exe, onPath, bin, inner, pending, log>>

RemoveFile(p) ==
  /\ changes < MaxChanges
  /\ p \in fs
  /\ fs' = fs \ {p}
  /\ changes' = changes + 1
  /\ UNCHANGED <<windows, exe, onPath, bin, inner, pending, log>>

----------------------------------------------------------------------------
(* Locator: any build, any current_exe() answer, files coming and going,   *)
(* a working ffprobe wherever a file exists, none in PATH.                 *)

Init ==
  /\ windows \in BOOLEAN
  /\ exe \in ExeResults
  /\ fs \in SUBSET FsPaths
  /\ onPath = FALSE
  /\ bin = GoodProgram
  /\ inner = <<>>
  /\ pending = Idle
  /\ changes = 0
  /\ log = <<>>

Next ==
  \/ SidecarPathCall
  \/ PathCall
  \/ IsInstalledResolve
  \/ IsInstalledLocate
  \/ IsInstalledLaunch
  \/ VersionResolve
  \/ VersionLocate
  \/ VersionLaunch
  \/ \E p \in FsPaths : CreateFile(p)
  \/ \E p \in FsPaths : RemoveFile(p)

Spec == Init /\ [][Next]_vars

(* Invoker: either build, any program behind the name, in PATH or not, the *)
(* build's sidecar file (/opt/ffprobe, /opt/ffprobe.exe on Windows) coming *)
(* and going, also between the reads of a call.                            *)

RacedPaths == {<<Slash, OPT, IF windows THEN FFPROBE_EXE ELSE FFPROBE>>}

InitInvoker ==
  /\ windows \in BOOLEAN
  /\ exe = Ok(<<Slash, OPT, APP>>)
  /\ fs \in SUBSET RacedPaths
  /\ onPath \in BOOLEAN
  /\ bin \in Programs
  /\ inner = <<>>
  /\ pending = Idle
  /\ changes = 0
  /\ log = <<>>

NextInvoker ==
  \/ VersionResolve
  \/ VersionLocate
  \/ VersionLaunch
  \/ \E p \in GivenPaths : VersionWithPathCall(p)
  \/ VersionWithPathLaunch
  \/ IsInstalledResolve
  \/ IsInstalledLocate
  \/ IsInstalledLaunch
  \/ \E p \in RacedPaths : CreateFile(p)
  \/ \E p \in RacedPaths : RemoveFile(p)

SpecInvoker == InitInvoker /\ [][NextInvoker]_vars

(* Builder: any sequence of builder calls on a fresh command.              *)

InitBuilder ==
  /\ windows = FALSE
  /\ exe = Ok(<<Slash, OPT, APP>>)
  /\ fs = {}
  /\ onPath = TRUE
  /\ bin = GoodProgram
  /\ inner = <<>>
  /\ pending = Idle
  /\ changes = 0
  /\ log = <<>>

NextBuilder ==
  \/ \E a \in Tokens : ArgCall(a)
  \/ \E list \in ArgLists : ArgsCall(list)
  \/ HideBannerCall
  \/ \E f \in Formats : PrintFormatCall(f)

SpecBuilder == InitBuilder /\ [][NextBuilder]_vars

----------------------------------------------------------------------------
(* What the claims are stated in *)

Last(q) == q[Len(q)]

CallsOf(ops) == {i \in DOMAIN log : log[i].op \in ops}

\* The sidecar location, when there is one: the directory of the running
\* executable, then ffprobe or ffprobe.exe.
HasDir == exe.ok /\ exe.val # <<>> /\ Last(exe.val) # Slash
SidecarName == IF windows THEN FFPROBE_EXE ELSE FFPROBE
Sidecar == Append(SubSeq(exe.val, 1, Len(exe.val) - 1), SidecarName)
Bare == <<FFPROBE>>

SidecarThere(env) == HasDir /\ Sidecar \in env.fs

\* The path the locator is to hand out in the environment `env`.
Effective(env) == IF SidecarThere(env) THEN Sidecar ELSE Bare

\* Whether the launch of `path` comes to a program file, whether it starts
\* a process, and whether the process runs to an exit that the caller
\* collects.  The launch reads twice: `mid` is what it sees when it settles
\* on a file, `at` what is there when the process is created.
\* A Unix build settles on nothing beforehand: a bare name is looked up in
\* PATH and any other path is run as it is, both at the creation.  A Windows
\* build settles first: for the bare name on ffprobe.exe beside the running
\* executable when it is there, on the PATH entry otherwise; for a path
\* without .exe on the path with .exe appended when that is there.  What it
\* settled on is what has to be there at the creation, nothing else is tried.
ExeDir ==
  IF Last(exe.val) = Slash THEN exe.val ELSE SubSeq(exe.val, 1, Len(exe.val) - 1)
Beside == Append(ExeDir, FFPROBE_EXE)
WithExe(path) == [path EXCEPT ![Len(path)] = FFPROBE_EXE]
Found(path, mid, at) ==
  IF ~windows
    THEN IF path = Bare THEN at.onPath ELSE path \in at.fs
  ELSE IF path = Bare
    THEN IF exe.ok /\ Beside \in mid.fs THEN Beside \in at.fs ELSE at.onPath
  ELSE IF Last(path) = FFPROBE /\ WithExe(path) \in mid.fs
    THEN WithExe(path) \in at.fs
  ELSE path \in at.fs
Launches(path, mid, at) == Found(path, mid, at) /\ bin.exec
Completes(path, mid, at) == Launches(path, mid, at) /\ bin.collected

\* The path a version query runs: the one given, or the effective one as
\* ffprobe_path() found it when the call started.
Queried(c) ==
  IF c.op = "ffprobe_version_with_path" THEN c.arg ELSE Effective(c.env)

VersionOps == {"ffprobe_version", "ffprobe_version_with_path"}

\* The texts over Bytes: concatenations of the encodings of U+000A, U+0041
\* and U+00E9.
Chars == {<<10>>, <<65>>, <<195, 169>>}

RECURSIVE Flatten(_)
Flatten(ss) == IF ss = <<>> THEN <<>> ELSE Head(ss) \o Flatten(Tail(ss))

Texts == {t \in {Flatten(cs) : cs \in SeqsUpTo(Chars, MaxOutLen)} : Len(t) <= MaxOutLen}

----------------------------------------------------------------------------
(* Locator claims, checked under Spec *)

\* C1: ffprobe_path always returns a path, never an error: the sidecar path
\* exactly when ffprobe_sidecar_path succeeds and an entry exists there at the
\* time of the call, the bare path `ffprobe` in every other case.
C1_PathIsSidecarIffExists ==
  \A i \in CallsOf({"ffprobe_path"}) :
    LET c == log[i]
    IN  /\ c.out \in {Bare} \cup FsPaths
        /\ c.out = IF SidecarThere(c.env) THEN Sidecar ELSE Bare

C1_Witness ==
  \E i \in CallsOf({"ffprobe_path"}) :
    /\ SidecarThere(log[i].env)
    /\ log[i].out = Sidecar
    /\ log[i].out # Bare

\* C7: whenever ffprobe_sidecar_path succeeds, the path is the directory of
\* the running executable joined with a file whose stem is exactly ffprobe and
\* whose extension is exe if and only if the build is for Windows, and absent
\* otherwise.
C7_SidecarNameAndExtension ==
  \A i \in CallsOf({"ffprobe_sidecar_path"}) :
    LET c == log[i]
    IN  c.out.ok =>
          /\ Len(c.out.val) = Len(exe.val)
          /\ SubSeq(c.out.val, 1, Len(exe.val) - 1) = SubSeq(exe.val, 1, Len(exe.val) - 1)
          /\ file_stem(c.out.val) = Some(FFPROBE)
          /\ (extension(c.out.val) = Some(EXE)) <=> windows
          /\ (extension(c.out.val) = None) <=> ~windows
          /\ Last(c.out.val) = SidecarName

C7_Witness ==
  \E i \in CallsOf({"ffprobe_sidecar_path"}) :
    /\ windows
    /\ log[i].out.ok
    /\ log[i].out.val = <<Slash, OPT, FFPROBE_EXE>>

\* C8: ffprobe_sidecar_path returns an error value when current_exe() fails
\* or the executable's path has no parent directory, and a path in every
\* other case, whether or not anything exists at that path.
C8_SidecarErrorIffNoDir ==
  \A i \in CallsOf({"ffprobe_sidecar_path"}) :
    LET c == log[i]
    IN  /\ c.out.ok <=> HasDir
        /\ ~exe.ok => c.out = Err(exe.err)
        /\ (exe.ok /\ ~HasDir) => c.out = Err(ContextError)
        /\ HasDir => c.out = Ok(Sidecar)

C8_Witness ==
  \E i \in CallsOf({"ffprobe_sidecar_path"}) :
    /\ exe = Ok(<<Slash>>)
    /\ log[i].out = Err(ContextError)

\* C9: nothing is cached across calls: of two calls, the later one of
\* ffprobe_path, ffprobe_is_installed or ffprobe_version answers from the
\* filesystem as it is during that call (at its existence check and, for the
\* two that launch, at the two reads of its launch), whatever the earlier
\* one was and returned; two calls of one function that read the same agree,
\* and after the sidecar file was created or removed the later call follows
\* the change.
C9_NoCachingAcrossCalls ==
  \A i, j \in DOMAIN log :
    i < j =>
      LET a == log[i]
          c == log[j]
          runs == Found(Effective(c.env), c.mid, c.at)
      IN  /\ (a.op = c.op /\ a.env = c.env /\ a.mid = c.mid /\ a.at = c.at) =>
                c.out = a.out
          /\ (c.op = "ffprobe_path" /\ HasDir) =>
                /\ (Sidecar \in c.env.fs) => c.out = Sidecar
                /\ (Sidecar \notin c.env.fs) => c.out = Bare
          /\ c.op = "ffprobe_is_installed" =>
                c.out = (runs /\ bin = GoodProgram)
          /\ c.op = "ffprobe_version" =>
                c.out = IF runs /\ bin = GoodProgram THEN Ok(<<65, 10>>)
                        ELSE Err(IoError("NotFound"))

C9_Witness ==
  \E i, j \in CallsOf({"ffprobe_path"}) :
    /\ i < j
    /\ HasDir
    /\ log[i].out = Sidecar
    /\ log[j].out = Bare
    /\ Sidecar \in log[i].env.fs
    /\ Sidecar \notin log[j].env.fs

----------------------------------------------------------------------------
(* Invoker claims, checked under SpecInvoker *)

\* C2: ffprobe_is_installed returns true if and only if the process at the
\* effective path (as found when the call started) was launched (the file
\* the launch settled on being there when the process is created) and exited
\* with a success status; a failed launch and a non-success exit give false,
\* and the result is always a boolean, never an error.
C2_InstalledIffLaunchedAndSuccess ==
  \A i \in CallsOf({"ffprobe_is_installed"}) :
    LET c == log[i]
        launched == Launches(Effective(c.env), c.mid, c.at)
        exited == Completes(Effective(c.env), c.mid, c.at)
    IN  /\ c.out \in BOOLEAN
        /\ c.out <=> (exited /\ bin.status = Exited(0))
        /\ ~launched => c.out = FALSE
        /\ (exited /\ bin.status # Exited(0)) => c.out = FALSE

\* One call launches the sidecar and answers true; another, on a Windows
\* build with an ffprobe in PATH, settles on ffprobe.exe beside the
\* executable, which is gone when the process is to be created: false.
C2_Witness ==
  \E i, j \in CallsOf({"ffprobe_is_installed"}) :
    /\ windows
    /\ bin = GoodProgram
    /\ log[i].out = TRUE
    /\ Completes(Effective(log[i].env), log[i].mid, log[i].at)
    /\ log[j].out = FALSE
    /\ log[j].at.onPath
    /\ Effective(log[j].env) = Bare
    /\ Beside \in log[j].mid.fs
    /\ Beside \notin log[j].at.fs

\* C3: for a binary that prints valid text to standard output and exits 0,
\* the version query (ffprobe_version_with_path, and ffprobe_version on the
\* effective path) whose launch ran the binary returns exactly the captured
\* text: every byte, in order, nothing trimmed.
C3_VersionReturnsStdoutUnmodified ==
  \A i \in CallsOf(VersionOps) :
    LET c == log[i]
    IN  (/\ Completes(Queried(c), c.mid, c.at)
         /\ bin.stdout \in Texts
         /\ bin.status = Exited(0))
        => /\ c.out.ok
           /\ c.out.val = bin.stdout
           /\ Len(c.out.val) = Len(bin.stdout)

C3_Witness ==
  \E i \in CallsOf({"ffprobe_version_with_path"}) :
    \E j \in CallsOf({"ffprobe_version"}) :
      /\ bin = Program(<<65, 10>>, Exited(0))
      /\ Completes(Queried(log[i]), log[i].mid, log[i].at)
      /\ Completes(Queried(log[j]), log[j].mid, log[j].at)
      /\ log[i].out = Ok(<<65, 10>>)
      /\ log[j].out = Ok(<<65, 10>>)

\* C4: the version query fails when the process cannot be launched, when its
\* exit and output cannot be collected, or when the captured bytes are not
\* valid text; the launch failure reaches the caller as the launch's I/O
\* error and the decode failure as the UTF-8 error, two different errors; a
\* failed launch is not tried again on another path.
C4_VersionErrorsDistinct ==
  \A i \in CallsOf(VersionOps) :
    LET c == log[i]
        launched == Launches(Queried(c), c.mid, c.at)
        found == Found(Queried(c), c.mid, c.at)
    IN  /\ ~found => c.out = Err(IoError("NotFound"))
        /\ (found /\ ~launched) => c.out = Err(IoError("PermissionDenied"))
        /\ (launched /\ ~bin.collected) =>
              /\ ~c.out.ok
              /\ c.out.err.type = "io::Error"
        /\ (launched /\ bin.collected /\ bin.stdout \notin Texts) =>
              /\ ~c.out.ok
              /\ c.out.err.type = "FromUtf8Error"
        /\ ~c.out.ok => (c.out.err.type = "io::Error") # (c.out.err.type = "FromUtf8Error")

\* A Windows build with an ffprobe in PATH: ffprobe_version settles on
\* ffprobe.exe beside the executable, the file is gone when the process is
\* to be created, and the launch error comes back without a second try;
\* another query runs the binary and fails on its bytes.
C4_Witness ==
  \E i, j \in CallsOf(VersionOps) :
    /\ windows
    /\ log[i].op = "ffprobe_version"
    /\ log[i].at.onPath
    /\ Effective(log[i].env) = Bare
    /\ Beside \in log[i].mid.fs
    /\ Beside \notin log[i].at.fs
    /\ log[i].out = Err(IoError("NotFound"))
    /\ ~log[j].out.ok
    /\ log[j].out.err.type = "FromUtf8Error"

\* C10: the version query does not look at the exit status: a process that
\* launches and prints valid UTF-8 gives Ok with that text also when it exits
\* with a failure status or is killed, so that for the same binary the
\* version query is Ok where ffprobe_is_installed is false.
C10_VersionIgnoresExitStatus ==
  \A i \in CallsOf(VersionOps) :
    LET c == log[i]
    IN  /\ (/\ Completes(Queried(c), c.mid, c.at)
             /\ bin.stdout \in Texts
             /\ bin.status \in {Exited(1), Signaled})
            => c.out = Ok(bin.stdout)
        /\ \A j \in CallsOf({"ffprobe_is_installed"}) :
              (/\ c.op = "ffprobe_version"
               /\ c.out.ok
               /\ bin.status \in {Exited(1), Signaled})
                => log[j].out = FALSE

C10_Witness ==
  \E i \in CallsOf({"ffprobe_version"}) :
    \E j \in CallsOf({"ffprobe_is_installed"}) :
      /\ log[i].env = log[j].env
      /\ log[i].mid = log[j].mid
      /\ log[i].at = log[j].at
      /\ Completes(Queried(log[i]), log[i].mid, log[i].at)
      /\ log[i].out.ok
      /\ log[i].out.val = bin.stdout
      /\ bin.status = Exited(1)
      /\ log[j].out = FALSE

----------------------------------------------------------------------------
(* Builder claims, checked under SpecBuilder *)

\* The argument sequence a builder call found: empty on a fresh command.
Before(i) == IF i = 1 THEN <<>> ELSE log[i - 1].out

IsPrefix(p, q) == Len(p) <= Len(q) /\ SubSeq(q, 1, Len(p)) = p

\* The tokens a builder call is to contribute.
Contribution(c) ==
  IF c.op = "arg" THEN c.arg
  ELSE IF c.op = "args" THEN c.arg
  ELSE IF c.op = "hide_banner" THEN <<"-hide_banner">>
  ELSE <<"-print_format", c.arg[1]>>

RECURSIVE Contributions(_)
Contributions(n) ==
  IF n = 0 THEN <<>> ELSE Contributions(n - 1) \o Contribution(log[n])

BuilderOps == {"arg", "args", "hide_banner", "print_format"}

\* C5: after any sequence of builder calls the argument sequence is the
\* concatenation, in call order, of what each call contributed: every call
\* appends at the end and leaves what was there as a prefix, nothing is
\* reordered and nothing that repeats is dropped.
C5_ArgsAreConcatenationInCallOrder ==
  /\ inner = Contributions(Len(log))
  /\ \A i \in CallsOf(BuilderOps) :
        LET c == log[i]
        IN  /\ IsPrefix(Before(i), c.out)
            /\ c.op = "arg" =>
                  /\ Len(c.out) = Len(Before(i)) + 1
                  /\ Last(c.out) = c.arg[1]
            /\ c.op = "args" =>
                  /\ Len(c.out) = Len(Before(i)) + Len(c.arg)
                  /\ \A k \in DOMAIN c.arg : c.out[Len(Before(i)) + k] = c.arg[k]

C5_Witness ==
  /\ Len(log) = 2
  /\ log[1].op = "arg" /\ log[1].arg = <<"x">>
  /\ log[2].op = "args" /\ log[2].arg = <<"a", "b">>
  /\ inner = <<"x", "a", "b">>

\* C6: hide_banner appends exactly the one token -hide_banner; print_format
\* appends exactly two tokens, -print_format and then the given value as it
\* is, whatever it is.
C6_HideBannerAndPrintFormatTokens ==
  \A i \in CallsOf({"hide_banner", "print_format"}) :
    LET c == log[i]
        n == Len(Before(i))
    IN  /\ SubSeq(c.out, 1, n) = Before(i)
        /\ c.op = "hide_banner" =>
              /\ Len(c.out) = n + 1
              /\ c.out[n + 1] = "-hide_banner"
        /\ c.op = "print_format" =>
              /\ Len(c.out) = n + 2
              /\ c.out[n + 1] = "-print_format"
              /\ c.out[n + 2] = c.arg[1]

C6_Witness ==
  /\ Len(log) = 2
  /\ log[1].op = "hide_banner"
  /\ log[2].op = "print_format" /\ log[2].arg = <<"json">>
  /\ inner = <<"-hide_banner", "-print_format", "json">>

====
